---- MODULE Spec2Model ----
(***************************************************************************)
(* Donation checkout of the nvopk9medgrp site.                             *)
(*                                                                         *)
(* Two checkout implementations live in the repository:                    *)
(*   - the session flow: DonationModal (src/unnamed/part_011) with         *)
(*     CheckoutForm (src/components/CheckoutForm.tsx), backed by the       *)
(*     create-checkout-session route (src/app/page.tsx:255-291);           *)
(*   - the payment-intent flow: DonationModal (src/unnamed/part_010) with  *)
(*     CheckoutPage (src/unnamed/part_012), backed by the                  *)
(*     create-payment-intent route (src/unnamed/part_004).                 *)
(* A page mounts one of them; `flow` says which one a behaviour follows.   *)
(*                                                                         *)
(* React state is modelled per component as a record whose fields carry    *)
(* the names of the useState variables.  Every handler is one action: the  *)
(* state updates it queues, followed by the re-render that mounts,         *)
(* keeps or unmounts the child components.                                 *)
(***************************************************************************)
EXTENDS Integers, Sequences, FiniteSets, TLC

VARIABLES
    flow,        \* "session" | "intent": which DonationModal the page mounts
    modal,       \* session flow: state of DonationModal (part_011)
    form,        \* session flow: the mounted CheckoutProvider/CheckoutForm instance
    intentModal, \* payment-intent flow: state of DonationModal (part_010)
    page,        \* payment-intent flow: the mounted Elements/CheckoutPage instance
    stripe,      \* payment-intent flow: Stripe.js has loaded (useStripe() is non-null)
    requests,    \* in-flight session-creation fetches
    confirms,    \* in-flight confirmation calls
    reqCount,    \* session-creation requests issued so far
    formCount,   \* component instances mounted so far
    confirmCount,\* confirmation calls issued so far
    nav,         \* what the browser shows: the site, or a return_url it was sent to
    escaped,     \* an exception has left an event handler (unhandled rejection)
    api,         \* server: the request last handled by a route, and its response
    created,     \* server: the objects the routes have created at Stripe
    banner,      \* site pages: clock, localStorage, TopBanner and Navbar state
    success      \* site pages: the payment-success page

vars == <<flow, modal, form, intentModal, page, stripe, requests, confirms, reqCount, formCount,
          confirmCount, nav, escaped, api, created, banner, success>>

\* the variables of the checkout components
clientVars == <<modal, form, intentModal, page, stripe, requests, confirms, reqCount,
                formCount, confirmCount, nav, escaped>>

\* the variables of the other pages of the site
pageVars == <<banner, success>>

(***************************************************************************)
(* Bounds of the model.                                                    *)
(***************************************************************************)
MaxRequests == 2
MaxConfirms == 2
MaxCreated == 2
MaxTime == 6

(***************************************************************************)
(* Values.                                                                 *)
(***************************************************************************)
\* useState<number | null>(null): the null of selectedAmount
Null == -1
\* useState(""): the empty clientSecret.  A token the backend issues is opaque
\* to the client; the model writes it as the request it answers and the
\* amount (minor units) its session was created for.
NoToken == [id |-> 0, amount |-> Null]
Token(r) == [id |-> r.id, amount |-> r.amount]
\* the browser still shows the site
OnSite == [page |-> "site", session |-> NoToken]

\* two of the four preset buttons ($25, $50); all four run the same handler
Presets == {2500, 5000}

\* Strings the user can type, as sequences of characters.
EmptyStr == << >>
CustomInputs ==
    { <<"0", ".", "5">>, <<"7", "5">>, <<"a">>, <<"2", "0", "0", "0", "0">> }

Emails == { EmptyStr, <<"a", "b">>, <<"a", "@", "b">> }

EnterAtLeast == "Enter at least $1"
SomethingWrong == "Something went wrong"
BackendMessage == "Stripe error"
InvalidEmail == "Please enter a valid email address"
PaymentFailed == "Payment failed"
CardDeclined == "Your card was declined"

(***************************************************************************)
(* JavaScript helpers.                                                     *)
(***************************************************************************)
Digits == {"0", "1", "2", "3", "4", "5", "6", "7", "8", "9"}

DigitVal(c) ==
    CASE c = "0" -> 0 [] c = "1" -> 1 [] c = "2" -> 2 [] c = "3" -> 3
      [] c = "4" -> 4 [] c = "5" -> 5 [] c = "6" -> 6 [] c = "7" -> 7
      [] c = "8" -> 8 [] c = "9" -> 9

RECURSIVE Pow10(_)
Pow10(k) == IF k = 0 THEN 1 ELSE 10 * Pow10(k - 1)

\* index of the first character at or after i that is no digit
RECURSIVE DigitsEnd(_, _)
DigitsEnd(s, i) ==
    IF i <= Len(s) /\ s[i] \in Digits THEN DigitsEnd(s, i + 1) ELSE i

\* value of the digits s[i .. j-1]
RECURSIVE DigitsVal(_, _, _)
DigitsVal(s, i, j) ==
    IF i >= j THEN 0 ELSE 10 * DigitsVal(s, i, j - 1) + DigitVal(s[j - 1])

NaN == [nan |-> TRUE, num |-> 0, den |-> 1]

\* a number with trailing zeros of its fraction removed: equal numbers are
\* equal records
RECURSIVE Norm(_)
Norm(v) ==
    IF v.den > 1 /\ v.num % 10 = 0
    THEN Norm([v EXCEPT !.num = v.num \div 10, !.den = v.den \div 10])
    ELSE v

\* parseFloat: the longest prefix that is a decimal literal (sign, digits,
\* fraction), NaN when there is none.  The value is the exact decimal
\* num / den; exponents and "Infinity" are outside the input alphabet.
ParseFloat(s) ==
    LET neg    == Len(s) >= 1 /\ s[1] = "-"
        start  == IF Len(s) >= 1 /\ s[1] \in {"-", "+"} THEN 2 ELSE 1
        iEnd   == DigitsEnd(s, start)
        hasDot == iEnd <= Len(s) /\ s[iEnd] = "."
        fEnd   == IF hasDot THEN DigitsEnd(s, iEnd + 1) ELSE iEnd
        nInt   == iEnd - start
        nFrac  == IF hasDot THEN fEnd - (iEnd + 1) ELSE 0
        mag    == DigitsVal(s, start, iEnd) * Pow10(nFrac)
                    + (IF hasDot THEN DigitsVal(s, iEnd + 1, fEnd) ELSE 0)
    IN  IF nInt + nFrac = 0
        THEN NaN
        ELSE Norm([nan |-> FALSE,
                   num |-> IF neg THEN -mag ELSE mag,
                   den |-> Pow10(nFrac)])

\* Math.round(v * 100) = floor(v * 100 + 1/2)
RoundTimes100(v) == (200 * v.num + v.den) \div (2 * v.den)

\* !dollars || dollars < 1
BelowOneDollar(v) == v.nan \/ v.num = 0 \/ v.num < v.den

\* value && ... : a number is truthy unless it is null or 0
Truthy(n) == n # Null /\ n # 0

\* email.includes("@")
RECURSIVE Includes(_, _)
Includes(s, c) ==
    IF s = << >> THEN FALSE ELSE Head(s) = c \/ Includes(Tail(s), c)

\* a validation that only tests for the empty string
EmailRejectedEmptyOnly(email) == email = EmptyStr

\* !email || !email.includes("@")
EmailRejected(email) == email = EmptyStr \/ ~Includes(email, "@")

(***************************************************************************)
(* Session flow: DonationModal (part_011) and CheckoutForm.                *)
(***************************************************************************)
\* no CheckoutProvider/CheckoutForm instance is mounted
NoForm ==
    [id |-> 0, bound |-> NoToken, tokens |-> {}, checkout |-> "none",
     submitting |-> FALSE, error |-> "", email |-> EmptyStr]

\* {clientSecret && selectedAmount && (<CheckoutProvider ...>)} inside DialogContent
FormRendered(m) ==
    m.open /\ m.clientSecret # NoToken /\ Truthy(m.selectedAmount)

\* The re-render after a state update of DonationModal.  The CheckoutProvider
\* element carries no key: while the condition stays true the same instance
\* is kept and receives the new options.clientSecret; a fresh instance is
\* constructed (bound to the clientSecret of that moment, CheckoutForm state
\* at its useState defaults) only when the condition turns true.
RenderSession(m, f, cnt) ==
    IF FormRendered(m)
    THEN IF f.id # 0
         THEN [f EXCEPT !.tokens = @ \cup {m.clientSecret}]
         ELSE [id |-> cnt + 1, bound |-> m.clientSecret,
               tokens |-> {m.clientSecret}, checkout |-> "loading",
               submitting |-> FALSE, error |-> "", email |-> EmptyStr]
    ELSE NoForm

Rerender ==
    /\ form' = RenderSession(modal', form, formCount)
    /\ formCount' = IF form'.id > formCount THEN form'.id ELSE formCount

\* createSession up to its await: setLoading(true); setError(""); fetch(...)
CreateSession(m, amountInCents) ==
    /\ reqCount < MaxRequests
    /\ modal' = [m EXCEPT !.loading = TRUE, !.error = ""]
    /\ reqCount' = reqCount + 1
    /\ requests' = requests \cup
           {[id |-> reqCount + 1, amount |-> amountInCents, owner |-> 0]}

\* handleOpenChange(true): the dialog trigger is clicked
Open ==
    /\ flow = "session" /\ nav = OnSite
    /\ ~modal.open
    /\ modal' = [modal EXCEPT !.open = TRUE]
    /\ Rerender
    /\ UNCHANGED <<flow, api, created, pageVars, intentModal, page, stripe, requests, confirms, reqCount, confirmCount,
                   nav, escaped>>

\* handleOpenChange(false): the dialog is dismissed
Close ==
    /\ flow = "session" /\ nav = OnSite
    /\ modal.open
    /\ modal' = [modal EXCEPT !.open = FALSE, !.selectedAmount = Null,
                              !.amount = EmptyStr, !.error = "",
                              !.clientSecret = NoToken]
    /\ Rerender
    /\ UNCHANGED <<flow, api, created, pageVars, intentModal, page, stripe, requests, confirms, reqCount, confirmCount,
                   nav, escaped>>

\* amount controls that stay enabled while a request is in flight
ControlsAlwaysEnabled(m) == m.open

\* the preset buttons and the custom amount input are rendered inside
\* DialogContent with disabled={loading}
ControlsEnabled(m) == m.open /\ ~m.loading

\* a preset click that leaves the custom amount field as it was
PresetSelectedKeepsInput(m, cents) == [m EXCEPT !.selectedAmount = cents]

\* handlePresetAmount before createSession: setSelectedAmount(cents);
\* setAmount("")
PresetSelected(m, cents) ==
    [m EXCEPT !.selectedAmount = cents, !.amount = EmptyStr]

\* a preset button, disabled={loading}
HandlePresetAmount(cents) ==
    /\ flow = "session" /\ nav = OnSite
    /\ ControlsEnabled(modal)
    /\ CreateSession(PresetSelected(modal, cents), cents)
    /\ Rerender
    /\ UNCHANGED <<flow, api, created, pageVars, intentModal, page, stripe, confirms, confirmCount, nav, escaped>>

\* onChange of the custom amount input, disabled={loading}
SetAmount(value) ==
    /\ flow = "session" /\ nav = OnSite
    /\ ControlsEnabled(modal)
    /\ modal' = [modal EXCEPT !.amount = value]
    /\ Rerender
    /\ UNCHANGED <<flow, api, created, pageVars, intentModal, page, stripe, requests, confirms, reqCount, confirmCount,
                   nav, escaped>>

\* the "Set Amount" button, disabled={loading || !amount}
HandleCustomAmount ==
    /\ flow = "session" /\ nav = OnSite
    /\ ControlsEnabled(modal) /\ modal.amount # EmptyStr
    /\ LET dollars == ParseFloat(modal.amount)
       IN  IF BelowOneDollar(dollars)
           THEN /\ modal' = [modal EXCEPT !.error = EnterAtLeast]
                /\ UNCHANGED <<requests, reqCount>>
           ELSE CreateSession(
                    [modal EXCEPT !.selectedAmount = RoundTimes100(dollars)],
                    RoundTimes100(dollars))
    /\ Rerender
    /\ UNCHANGED <<flow, api, created, pageVars, intentModal, page, stripe, confirms, confirmCount, nav, escaped>>

\* a createSession that resets loading after the try block only, not in a
\* finally: the exception path leaves it set
SessionSettledWithoutFinally(m, r, outcome) ==
    CASE outcome = "ok" ->
           [m EXCEPT !.clientSecret = Token(r), !.loading = FALSE]
      [] outcome = "error" ->
           [m EXCEPT !.error = BackendMessage, !.loading = FALSE]
      [] outcome = "throw" ->
           [m EXCEPT !.error = SomethingWrong]

\* the state updates of createSession after its await
SessionSettled(m, r, outcome) ==
    CASE outcome = "ok" ->
           [m EXCEPT !.clientSecret = Token(r), !.loading = FALSE]
      [] outcome = "error" ->
           [m EXCEPT !.error = BackendMessage, !.loading = FALSE]
      [] outcome = "throw" ->
           [m EXCEPT !.error = SomethingWrong, !.loading = FALSE]

\* createSession after its await.  The create-checkout-session route either
\* creates a session and answers { clientSecret }, or answers { error } with
\* status 500; fetch() or res.json() may also throw.
\*   "ok":    setClientSecret(data.clientSecret)
\*   "error": setError(data.error)
\*   "throw": catch -> setError("Something went wrong")
\*   finally: setLoading(false)
CreateSessionSettled(r, outcome) ==
    /\ flow = "session" /\ nav = OnSite
    /\ r \in requests
    /\ requests' = requests \ {r}
    /\ modal' = SessionSettled(modal, r, outcome)
    /\ Rerender
    /\ UNCHANGED <<flow, api, created, pageVars, intentModal, page, stripe, confirms, reqCount, confirmCount, nav, escaped>>

\* useCheckout(): the provider finishes initialising the bound session
CheckoutLoaded(type) ==
    /\ flow = "session" /\ nav = OnSite
    /\ form.id # 0 /\ form.checkout = "loading"
    /\ form' = [form EXCEPT !.checkout = type]
    /\ UNCHANGED <<flow, api, created, pageVars, intentModal, page, stripe, modal, requests, confirms, reqCount,
                   formCount, confirmCount, nav, escaped>>

\* onChange of the email input of CheckoutForm
SetEmail(value) ==
    /\ flow = "session" /\ nav = OnSite
    /\ form.id # 0 /\ form.checkout = "success"
    /\ form' = [form EXCEPT !.email = value]
    /\ UNCHANGED <<flow, api, created, pageVars, intentModal, page, stripe, modal, requests, confirms, reqCount,
                   formCount, confirmCount, nav, escaped>>

\* a submit button that stays enabled while a confirmation is in flight
SubmitNeverDisabled(f) == f.id # 0 /\ f.checkout = "success"

\* The <form> is rendered only for checkout.type = "success" and its submit
\* button is disabled={submitting}.
SubmitEnabled(f) == f.id # 0 /\ f.checkout = "success" /\ ~f.submitting

\* CheckoutForm.handleSubmit up to its await
CheckoutFormHandleSubmit ==
    /\ flow = "session" /\ nav = OnSite
    /\ SubmitEnabled(form)
    /\ IF EmailRejected(form.email)
       THEN /\ form' = [form EXCEPT !.error = InvalidEmail]
            /\ UNCHANGED <<confirms, confirmCount>>
       ELSE /\ confirmCount < MaxConfirms
            /\ form' = [form EXCEPT !.submitting = TRUE, !.error = ""]
            /\ confirmCount' = confirmCount + 1
            /\ confirms' = confirms \cup
                   {[id |-> confirmCount + 1, form |-> form.id,
                     token |-> form.bound, email |-> form.email,
                     step |-> "confirm"]}
    /\ UNCHANGED <<flow, api, created, pageVars, intentModal, page, stripe, modal, requests, reqCount, formCount,
                   nav, escaped>>

\* an error branch that leaves the form submitting
ConfirmFailedStaysSubmitting(f, message) ==
    [f EXCEPT !.error = IF message = "" THEN PaymentFailed ELSE message]

\* if (result.type === "error") { setError(result.error.message ||
\* "Payment failed"); setSubmitting(false); }
ConfirmFailed(f, message) ==
    [f EXCEPT !.error = IF message = "" THEN PaymentFailed ELSE message,
              !.submitting = FALSE]

\* a return_url without the {CHECKOUT_SESSION_ID} placeholder
ReturnUrlWithoutSession(token) ==
    [page |-> "donation-success", session |-> NoToken]

\* return_url of the session: /donation-success?session_id={CHECKOUT_SESSION_ID},
\* the placeholder filled in by the provider with the confirmed session
ReturnUrl(token) == [page |-> "donation-success", session |-> token]

\* CheckoutForm.handleSubmit after `await checkout.checkout.confirm({ email })`.
\*   "success": the provider sends the browser to the session's return_url;
\*              the handler does nothing
\*   "error" / "error-nomsg": setError(message || "Payment failed");
\*              setSubmitting(false) - on the instance that issued the call,
\*              a no-op once that instance is unmounted
\*   "throw":   the awaited promise rejects; nothing catches it
CheckoutFormConfirmSettled(c, outcome) ==
    /\ flow = "session" /\ nav = OnSite
    /\ c \in confirms
    /\ confirms' = confirms \ {c}
    /\ nav' = IF outcome = "success" THEN ReturnUrl(c.token) ELSE nav
    /\ form' = IF outcome \in {"error", "error-nomsg"} /\ form.id = c.form
               THEN ConfirmFailed(form, IF outcome = "error" THEN CardDeclined
                                        ELSE "")
               ELSE form
    /\ escaped' = (escaped \/ outcome = "throw")
    /\ UNCHANGED <<flow, api, created, pageVars, intentModal, page, stripe, modal, requests, reqCount, formCount,
                   confirmCount>>

(***************************************************************************)
(* Payment-intent flow: DonationModal (part_010) and CheckoutPage.         *)
(***************************************************************************)
Dollars(n) == [nan |-> FALSE, num |-> n, den |-> 1]

\* defaultAmount = 50
DefaultAmount == Dollars(50)
\* two of the presetAmounts = [25, 50, 100, 250]
PresetAmounts == {Dollars(25), Dollars(50)}
\* what the user can type into the custom amount field
IntentInputs == CustomInputs \cup { <<"5", "0", ".", "0", "0", "1">> }

ValidNumber == "Please enter a valid number"
MinimumDonation == "Minimum donation is $1.00"
MaximumDonation == "Maximum donation is $10,000"
FailedToInitialize == "Failed to initialize payment. Please try again."
IncompleteCard == "Your card number is incomplete"
UnexpectedError == "An unexpected error occurred."

\* a < n and a > n for a number a and an integer n
LessThan(a, n) == a.num < n * a.den
GreaterThan(a, n) == a.num > n * a.den

\* lib/convertToSubcurrency: the amount in minor units, Math.round(amount * 100)
ConvertToSubcurrency(amount) == RoundTimes100(amount)

\* MAX_AMOUNT of the create-payment-intent route
MAX_AMOUNT == 1000000

\* The create-payment-intent route creates a payment intent only for an
\* amount that passes its validation; a request it rejects is answered
\* with { error } and status 400.
IntentAmountAccepted(amount) == amount > 0 /\ amount <= MAX_AMOUNT

\* a canProceed that does not look at amountError
CanProceedIgnoringError(m) ==
    /\ ~LessThan(m.selectedAmount, 1)
    /\ (m.customInput = EmptyStr \/ ~ParseFloat(m.customInput).nan)

\* canProceed
CanProceed(m) ==
    /\ ~LessThan(m.selectedAmount, 1)
    /\ m.amountError = ""
    /\ (m.customInput = EmptyStr \/ ~ParseFloat(m.customInput).nan)

\* no Elements/CheckoutPage instance is mounted
NoPage ==
    [id |-> 0, key |-> 0, amount |-> NaN, errorMessage |-> "",
     clientSecret |-> NoToken, loading |-> FALSE]

\* The re-render after a state update of DonationModal.  Elements is mounted
\* inside DialogContent while canProceed holds and is keyed by the amount in
\* minor units: a changed key replaces the instance (CheckoutPage state at
\* its useState defaults), the same key keeps it and passes the new amount.
RenderIntent(m, p, cnt) ==
    IF m.open /\ CanProceed(m)
    THEN IF p.id # 0 /\ p.key = ConvertToSubcurrency(m.selectedAmount)
         THEN [p EXCEPT !.amount = m.selectedAmount]
         ELSE [id |-> cnt + 1, key |-> ConvertToSubcurrency(m.selectedAmount),
               amount |-> m.selectedAmount, errorMessage |-> "",
               clientSecret |-> NoToken, loading |-> FALSE]
    ELSE NoPage

\* an effect with an empty dependency list: it runs on mount only
EffectRunsOnMountOnly(old, new) == new.id # 0 /\ new.id # old.id

\* CheckoutPage's useEffect(..., [amount]) runs after a render that mounted
\* the instance or changed its amount, and posts the amount in minor units.
EffectRuns(old, new) ==
    new.id # 0 /\ (new.id # old.id \/ new.amount # old.amount)

RerenderIntent ==
    /\ page' = RenderIntent(intentModal', page, formCount)
    /\ formCount' = IF page'.id > formCount THEN page'.id ELSE formCount
    /\ IF EffectRuns(page, page')
       THEN /\ reqCount < MaxRequests
            /\ reqCount' = reqCount + 1
            /\ requests' = requests \cup
                   {[id |-> reqCount + 1,
                     amount |-> ConvertToSubcurrency(page'.amount),
                     owner |-> page'.id]}
       ELSE UNCHANGED <<requests, reqCount>>

\* setOpen through Dialog's onOpenChange
SetOpen(isOpen) ==
    /\ flow = "intent" /\ nav = OnSite
    /\ intentModal.open # isOpen
    /\ intentModal' = [intentModal EXCEPT !.open = isOpen]
    /\ RerenderIntent
    /\ UNCHANGED <<flow, api, created, pageVars, modal, form, stripe, confirms, confirmCount, nav, escaped>>

HandlePresetClick(amount) ==
    /\ flow = "intent" /\ nav = OnSite
    /\ intentModal.open
    /\ intentModal' = [intentModal EXCEPT !.selectedAmount = amount,
                                          !.customInput = EmptyStr,
                                          !.amountError = ""]
    /\ RerenderIntent
    /\ UNCHANGED <<flow, api, created, pageVars, modal, form, stripe, confirms, confirmCount, nav, escaped>>

\* a validation whose maximum is ten times too high
CustomInputLooseMaximum(modalState, value) ==
    LET amount == ParseFloat(value)
        m == [modalState EXCEPT !.customInput = value]
    IN  IF value = EmptyStr THEN [m EXCEPT !.amountError = ""]
        ELSE IF amount.nan THEN [m EXCEPT !.amountError = ValidNumber]
        ELSE IF LessThan(amount, 1)
             THEN [m EXCEPT !.amountError = MinimumDonation]
        ELSE IF GreaterThan(amount, 100000)
             THEN [m EXCEPT !.amountError = MaximumDonation]
        ELSE [m EXCEPT !.selectedAmount = amount, !.amountError = ""]

\* the state updates of handleCustomInput
CustomInput(modalState, value) ==
    LET amount == ParseFloat(value)
        m == [modalState EXCEPT !.customInput = value]
    IN  IF value = EmptyStr THEN [m EXCEPT !.amountError = ""]
        ELSE IF amount.nan THEN [m EXCEPT !.amountError = ValidNumber]
        ELSE IF LessThan(amount, 1)
             THEN [m EXCEPT !.amountError = MinimumDonation]
        ELSE IF GreaterThan(amount, 10000)
             THEN [m EXCEPT !.amountError = MaximumDonation]
        ELSE [m EXCEPT !.selectedAmount = amount, !.amountError = ""]

HandleCustomInput(value) ==
    /\ flow = "intent" /\ nav = OnSite
    /\ intentModal.open
    /\ intentModal' = CustomInput(intentModal, value)
    /\ RerenderIntent
    /\ UNCHANGED <<flow, api, created, pageVars, modal, form, stripe, confirms, confirmCount, nav, escaped>>

\* stripePromise resolves: useStripe() and useElements() turn non-null
StripeLoaded ==
    /\ flow = "intent" /\ nav = OnSite
    /\ ~stripe
    /\ stripe' = TRUE
    /\ UNCHANGED <<flow, api, created, pageVars, modal, form, intentModal, page, requests, confirms,
                   reqCount, formCount, confirmCount, nav, escaped>>

\* The fetch of CheckoutPage's effect settles.  The setters belong to the
\* instance that ran the effect and do nothing once it is unmounted.
\*   "ok":    the route answers { clientSecret }: setClientSecret(data.clientSecret)
\*   "error": the route answers { error } (400 or 500): data.clientSecret is
\*            undefined, setClientSecret(undefined)
\*   "throw": fetch() or res.json() rejects: .catch -> setErrorMessage(...)
PaymentIntentSettled(r, outcome) ==
    /\ flow = "intent" /\ nav = OnSite
    /\ r \in requests
    /\ outcome = "ok" => IntentAmountAccepted(r.amount)
    /\ requests' = requests \ {r}
    /\ page' =
         IF page.id # r.owner THEN page
         ELSE CASE outcome = "ok" -> [page EXCEPT !.clientSecret = Token(r)]
                [] outcome = "error" -> [page EXCEPT !.clientSecret = NoToken]
                [] outcome = "throw" ->
                     [page EXCEPT !.errorMessage = FailedToInitialize]
    /\ UNCHANGED <<flow, api, created, pageVars, modal, form, intentModal, stripe, confirms, reqCount,
                   formCount, confirmCount, nav, escaped>>

\* a submit button that does not wait for the clientSecret
PayEnabledWithoutSecret(p, stripeLoaded) ==
    p.id # 0 /\ stripeLoaded /\ ~p.loading

\* the submit button of CheckoutPage, disabled={!stripe || loading || !clientSecret}
PayEnabled(p, stripeLoaded) ==
    p.id # 0 /\ stripeLoaded /\ ~p.loading /\ p.clientSecret # NoToken

\* CheckoutPage.handleSubmit up to `await elements.submit()`.  The submit
\* button is disabled={!stripe || loading || !clientSecret}, so the handler's
\* own (!stripe || !elements) return is not taken.
CheckoutPageHandleSubmit ==
    /\ flow = "intent" /\ nav = OnSite
    /\ PayEnabled(page, stripe)
    /\ confirmCount < MaxConfirms
    /\ page' = [page EXCEPT !.loading = TRUE]
    /\ confirmCount' = confirmCount + 1
    /\ confirms' = confirms \cup
           {[id |-> confirmCount + 1, form |-> page.id,
             token |-> page.clientSecret, email |-> EmptyStr,
             step |-> "submit"]}
    /\ UNCHANGED <<flow, api, created, pageVars, modal, form, intentModal, stripe, requests, reqCount,
                   formCount, nav, escaped>>

\* handleSubmit after `await elements.submit()`.
\*   "ok":    no submitError: stripe.confirmPayment({ elements, clientSecret, ... })
\*   "error": setErrorMessage(submitError.message); setLoading(false)
\*   "throw": the awaited promise rejects; nothing catches it
ElementsSubmitSettled(c, outcome) ==
    /\ flow = "intent" /\ nav = OnSite
    /\ c \in confirms /\ c.step = "submit"
    /\ confirms' = IF outcome = "ok"
                   THEN (confirms \ {c}) \cup {[c EXCEPT !.step = "confirm"]}
                   ELSE confirms \ {c}
    /\ page' = IF outcome = "error" /\ page.id = c.form
               THEN [page EXCEPT !.errorMessage = IncompleteCard,
                                 !.loading = FALSE]
               ELSE page
    /\ escaped' = (escaped \/ outcome = "throw")
    /\ UNCHANGED <<flow, api, created, pageVars, modal, form, intentModal, stripe, requests, reqCount,
                   formCount, confirmCount, nav>>

\* handleSubmit after `await stripe.confirmPayment(...)`.
\*   "success": Stripe redirects the browser to return_url
\*   "error":   setErrorMessage(error.message); setLoading(false)
\*   "none":    no error and no redirect: setErrorMessage("An unexpected
\*              error occurred."); setLoading(false)
\*   "throw":   the awaited promise rejects; nothing catches it
ConfirmPaymentSettled(c, outcome) ==
    /\ flow = "intent" /\ nav = OnSite
    /\ c \in confirms /\ c.step = "confirm"
    /\ confirms' = confirms \ {c}
    /\ nav' = IF outcome = "success"
              THEN [page |-> "payment-success", session |-> c.token]
              ELSE nav
    /\ page' = IF outcome \in {"error", "none"} /\ page.id = c.form
               THEN [page EXCEPT
                       !.errorMessage = IF outcome = "error" THEN CardDeclined
                                        ELSE UnexpectedError,
                       !.loading = FALSE]
               ELSE page
    /\ escaped' = (escaped \/ outcome = "throw")
    /\ UNCHANGED <<flow, api, created, pageVars, modal, form, intentModal, stripe, requests, reqCount,
                   formCount, confirmCount>>

(***************************************************************************)
(* The API routes.  A route handler runs from the request to its response; *)
(* its only await after parsing is the call to Stripe, whose outcome is    *)
(* the handler's input "outcome".                                          *)
(***************************************************************************)
\* JSON values of the body's amount member
Missing == [type |-> "undefined", n |-> 0]
Malformed == [type |-> "malformed", n |-> 0]
Str == [type |-> "string", n |-> 0]
Num(n) == [type |-> "number", n |-> n]

\* request bodies: {}, a body that is no JSON, { amount: "abc" }, { amount: n }
Bodies ==
    { Missing, Malformed, Str, Num(0), Num(-500), Num(2500), Num(1000000),
      Num(1000001) }

\* the session_id query parameter: absent (searchParams.get gives null),
\* empty, or an identifier
NoParam == [present |-> FALSE, value |-> ""]
Param(v) == [present |-> TRUE, value |-> v]
SessionIds == { NoParam, Param(""), Param("cs_test_1"), Param("cs_test_2") }

\* what stripe.checkout.sessions.retrieve can return
NoSession == [status |-> "", amount_total |-> Null, currency |-> ""]
StripeSessions ==
    { [status |-> st, amount_total |-> a, currency |-> "usd"] :
        st \in {"complete", "open"}, a \in {2500, 5000} }

InvalidAmountMessage ==
    "Invalid amount. Amount must be a positive number in cents."
ExceedsMaximum == "Amount exceeds maximum allowed ($10000)"
InitializationFailed == "Payment initialization failed. Please try again."
InvalidFormat == "Invalid request format. Please check your request body."
NoSessionId == "No session ID"
StripeMessage == "Invalid integer"
JsonMessage == "Unexpected end of JSON input"
NoSuchSession == "No such checkout.session"

\* before any request
NoRequest ==
    [route |-> "", body |-> Missing, sessionId |-> NoParam, status |-> 0,
     error |-> "", issued |-> FALSE, upstream |-> "none",
     retrieved |-> NoSession, session |-> NoSession]

\* Stripe creates a payment intent or a checkout session only for an amount
\* that is a positive integer; any other amount makes the call throw.
StripeAccepts(body) == body.type = "number" /\ body.n > 0

\* !amount || typeof amount !== "number" || amount <= 0
AmountInvalid(body) ==
    \/ body.type = "undefined"
    \/ (body.type = "number" /\ body.n = 0)
    \/ body.type # "number"
    \/ body.n <= 0

Answer(route, body, status, error, issued, upstream) ==
    [NoRequest EXCEPT !.route = route, !.body = body, !.status = status,
                      !.error = error, !.issued = issued,
                      !.upstream = upstream]

\* the response of POST /api/create-payment-intent
PaymentIntentAnswer(body, outcome) ==
    LET route == "create-payment-intent"
    IN  IF body = Malformed
        THEN Answer(route, body, 400, InvalidFormat, FALSE, "none")
        ELSE IF AmountInvalid(body)
        THEN Answer(route, body, 400, InvalidAmountMessage, FALSE, "none")
        ELSE IF body.n > MAX_AMOUNT
        THEN Answer(route, body, 400, ExceedsMaximum, FALSE, "none")
        ELSE IF outcome = "ok"
        THEN Answer(route, body, 200, "", TRUE, "created")
        ELSE Answer(route, body, 500, InitializationFailed, FALSE, "failed")

\* the route returns its response; a response with a clientSecret means the
\* call to Stripe created the object
Respond(answer) ==
    /\ answer.issued => (StripeAccepts(answer.body) /\ Len(created) < MaxCreated)
    /\ api' = answer
    /\ created' = IF answer.issued
                  THEN Append(created, [route |-> answer.route,
                                        amount |-> answer.body.n])
                  ELSE created

\* POST /api/create-payment-intent
PostCreatePaymentIntent(body, outcome) ==
    /\ flow = "api"
    /\ Respond(PaymentIntentAnswer(body, outcome))
    /\ UNCHANGED <<flow, clientVars, pageVars>>

\* POST /api/create-checkout-session: the amount goes to Stripe as parsed
PostCreateCheckoutSession(body, outcome) ==
    /\ flow = "api"
    /\ LET route == "create-checkout-session"
       IN  IF body = Malformed
           THEN /\ api' = Answer(route, body, 500, JsonMessage, FALSE, "none")
                /\ created' = created
           ELSE IF outcome = "ok"
           THEN /\ StripeAccepts(body)
                /\ Len(created) < MaxCreated
                /\ api' = Answer(route, body, 200, "", TRUE, "created")
                /\ created' = Append(created, [route |-> route,
                                               amount |-> body.n])
           ELSE /\ api' = Answer(route, body, 500, StripeMessage, FALSE,
                                 "failed")
                /\ created' = created
    /\ UNCHANGED <<flow, clientVars, pageVars>>

\* a test of the parameter for null only
NoSessionIdNullOnly(sessionId) == ~sessionId.present

\* !sessionId
NoSessionIdGiven(sessionId) == ~sessionId.present \/ sessionId.value = ""

\* GET /api/verify-session?session_id=...
GetVerifySession(sessionId, outcome, found) ==
    /\ flow = "api"
    /\ LET r == [NoRequest EXCEPT !.route = "verify-session",
                                  !.sessionId = sessionId]
       IN  api' =
             IF NoSessionIdGiven(sessionId)
             THEN [r EXCEPT !.status = 400, !.error = NoSessionId]
             ELSE IF outcome = "ok"
             THEN [r EXCEPT !.status = 200, !.upstream = "retrieved",
                            !.retrieved = found,
                            !.session =
                               [status |-> found.status,
                                amount_total |-> found.amount_total,
                                currency |-> found.currency]]
             ELSE [r EXCEPT !.status = 500, !.error = NoSuchSession,
                            !.upstream = "failed"]
    /\ UNCHANGED <<flow, created, clientVars, pageVars>>

(***************************************************************************)
(* The site pages: TopBanner (in the root layout), Navbar and the          *)
(* payment-success page.  Time is counted in whole days; localStorage      *)
(* holds the ISO timestamp that handleClose wrote, which new Date() reads  *)
(* back to the same instant.                                               *)
(***************************************************************************)
\* daysSinceClosed < 5
ExpiryDays == 5

\* useState defaults of TopBanner and Navbar, not yet mounted
TopDefault == [isMounted |-> FALSE, isVisible |-> TRUE, data |-> "none"]
NavbarDefault == [mounted |-> FALSE, isBannerVisible |-> TRUE]

\* closedTime: localStorage "topBannerClosedTime" (Null when absent);
\* closedFlag: localStorage "topBannerClosed" ("" when absent)
BannerInit ==
    [now |-> 0, closedTime |-> Null, closedFlag |-> "",
     top |-> TopDefault, navbar |-> NavbarDefault]

\* an expiry check that still hides the banner on the fifth day
TopBannerMountedInclusive(b) ==
    IF b.closedTime # Null
    THEN IF b.now - b.closedTime <= ExpiryDays
         THEN [b EXCEPT !.top = [TopDefault EXCEPT !.isMounted = TRUE,
                                                   !.isVisible = FALSE]]
         ELSE [b EXCEPT !.closedTime = Null,
                        !.top = [TopDefault EXCEPT !.isMounted = TRUE]]
    ELSE [b EXCEPT !.top = [TopDefault EXCEPT !.isMounted = TRUE]]

\* TopBanner's mount effect on a fresh instance
TopBannerMounted(b) ==
    IF b.closedTime # Null
    THEN IF b.now - b.closedTime < ExpiryDays
         THEN [b EXCEPT !.top = [TopDefault EXCEPT !.isMounted = TRUE,
                                                   !.isVisible = FALSE]]
         ELSE [b EXCEPT !.closedTime = Null,
                        !.top = [TopDefault EXCEPT !.isMounted = TRUE]]
    ELSE [b EXCEPT !.top = [TopDefault EXCEPT !.isMounted = TRUE]]

\* Navbar's mount effect on a fresh instance
NavbarMounted(b) ==
    [b EXCEPT !.navbar = [mounted |-> TRUE,
                          isBannerVisible |-> b.closedFlag # "true"]]

\* TopBanner renders its bar
BannerShown(b) ==
    b.top.isMounted /\ b.top.isVisible /\ b.top.data = "enabled"

\* the payment-success page is not the page shown
NoSuccessPage ==
    [mounted |-> FALSE, paymentIntent |-> NoParam, redirectStatus |-> NoParam,
     isLoading |-> TRUE, timer |-> FALSE]

PaymentIntents == { NoParam, Param(""), Param("pi_1") }
RedirectStatuses ==
    { NoParam, Param("succeeded"), Param("processing"),
      Param("requires_payment_method") }

\* render branches that test the status before the payment_intent
ShownStatusFirst(s) ==
    IF s.isLoading THEN "Verifying"
    ELSE IF s.redirectStatus # Param("succeeded") THEN "Payment Failed"
    ELSE IF ~s.paymentIntent.present \/ s.paymentIntent.value = ""
         THEN "Invalid Payment"
    ELSE "Payment Successful"

\* the render branches of PaymentSuccessPage
Shown(s) ==
    IF s.isLoading THEN "Verifying"
    ELSE IF ~s.paymentIntent.present \/ s.paymentIntent.value = ""
         THEN "Invalid Payment"
    ELSE IF s.redirectStatus # Param("succeeded") THEN "Payment Failed"
    ELSE "Payment Successful"

\* a day passes
Tick ==
    /\ flow = "pages"
    /\ banner.now < MaxTime
    /\ banner' = [banner EXCEPT !.now = @ + 1]
    /\ UNCHANGED <<flow, api, created, clientVars, success>>

\* a full load of a page with a Navbar: the layout mounts TopBanner, the
\* page mounts Navbar, both from their useState defaults
PageLoad ==
    /\ flow = "pages"
    /\ banner' = NavbarMounted(TopBannerMounted(banner))
    /\ success' = NoSuccessPage
    /\ UNCHANGED <<flow, api, created, clientVars>>

\* a client-side navigation: the layout with TopBanner stays, the page's
\* Navbar is replaced by a fresh instance
NavbarRemount ==
    /\ flow = "pages"
    /\ banner.navbar.mounted
    /\ banner' = NavbarMounted(banner)
    /\ UNCHANGED <<flow, api, created, clientVars, success>>

\* fetchBannerData resolves: setBannerData(data)
BannerDataLoaded(isEnabled) ==
    /\ flow = "pages"
    /\ banner.top.isMounted /\ banner.top.data = "none"
    /\ banner' = [banner EXCEPT
                    !.top.data = IF isEnabled THEN "enabled" ELSE "disabled"]
    /\ UNCHANGED <<flow, api, created, clientVars, success>>

\* TopBanner.handleClose: the close button of the shown bar
HandleClose ==
    /\ flow = "pages"
    /\ BannerShown(banner)
    /\ banner' = [banner EXCEPT
                    !.top.isVisible = FALSE,
                    !.closedTime = banner.now,
                    !.navbar.isBannerVisible =
                       IF banner.navbar.mounted THEN FALSE ELSE @]
    /\ UNCHANGED <<flow, api, created, clientVars, success>>

\* the browser arrives at /payment-success?payment_intent=..&redirect_status=..:
\* a full load, the layout mounts TopBanner, the page starts its timer
SuccessPageLoad(paymentIntent, redirectStatus) ==
    /\ flow = "pages"
    /\ success' = [mounted |-> TRUE, paymentIntent |-> paymentIntent,
                   redirectStatus |-> redirectStatus, isLoading |-> TRUE,
                   timer |-> TRUE]
    /\ banner' = TopBannerMounted([banner EXCEPT !.navbar = NavbarDefault])
    /\ UNCHANGED <<flow, api, created, clientVars>>

\* setTimeout(() => setIsLoading(false), 1000) fires
SuccessTimerFires ==
    /\ flow = "pages"
    /\ success.mounted /\ success.timer
    /\ success' = [success EXCEPT !.isLoading = FALSE, !.timer = FALSE]
    /\ UNCHANGED <<flow, api, created, clientVars, banner>>

IntentInit ==
    intentModal = [open |-> FALSE, selectedAmount |-> DefaultAmount,
                   customInput |-> EmptyStr, amountError |-> ""]

SessionInit ==
    modal = [open |-> FALSE, clientSecret |-> NoToken, loading |-> FALSE,
                error |-> "", amount |-> EmptyStr, selectedAmount |-> Null]

ClientInit ==
    /\ SessionInit /\ form = NoForm
    /\ IntentInit /\ page = NoPage /\ stripe = FALSE
    /\ requests = {} /\ confirms = {}
    /\ reqCount = 0 /\ formCount = 0 /\ confirmCount = 0
    /\ nav = OnSite /\ escaped = FALSE

ServerInit == api = NoRequest /\ created = << >>

PagesInit == banner = BannerInit /\ success = NoSuccessPage

Init ==
    /\ flow \in {"session", "intent"}
    /\ ClientInit
    /\ ServerInit
    /\ PagesInit

Next ==
    \/ Open
    \/ Close
    \/ \E cents \in Presets : HandlePresetAmount(cents)
    \/ \E value \in CustomInputs \cup {EmptyStr} : SetAmount(value)
    \/ HandleCustomAmount
    \/ \E r \in requests, outcome \in {"ok", "error", "throw"} :
          CreateSessionSettled(r, outcome)
    \/ \E type \in {"success", "error"} : CheckoutLoaded(type)
    \/ \E value \in Emails : SetEmail(value)
    \/ CheckoutFormHandleSubmit
    \/ \E c \in confirms,
          outcome \in {"success", "error", "error-nomsg", "throw"} :
          CheckoutFormConfirmSettled(c, outcome)
    \/ \E isOpen \in BOOLEAN : SetOpen(isOpen)
    \/ \E amount \in PresetAmounts : HandlePresetClick(amount)
    \/ \E value \in IntentInputs \cup {EmptyStr} : HandleCustomInput(value)
    \/ StripeLoaded
    \/ \E r \in requests, outcome \in {"ok", "error", "throw"} :
          PaymentIntentSettled(r, outcome)
    \/ CheckoutPageHandleSubmit
    \/ \E c \in confirms, outcome \in {"ok", "error", "throw"} :
          ElementsSubmitSettled(c, outcome)
    \/ \E c \in confirms, outcome \in {"success", "error", "none", "throw"} :
          ConfirmPaymentSettled(c, outcome)

Spec == Init /\ [][Next]_vars

\* the routes, called with every request a client can send
ApiInit ==
    /\ flow = "api"
    /\ ClientInit
    /\ ServerInit
    /\ PagesInit

ApiNext ==
    \/ \E body \in Bodies, outcome \in {"ok", "fail"} :
          PostCreatePaymentIntent(body, outcome)
    \/ \E body \in Bodies, outcome \in {"ok", "fail"} :
          PostCreateCheckoutSession(body, outcome)
    \/ \E sessionId \in SessionIds, outcome \in {"ok", "fail"},
          found \in StripeSessions :
          GetVerifySession(sessionId, outcome, found)

SpecApi == ApiInit /\ [][ApiNext]_vars

\* The amount validation of the payment-intent modal against the validation
\* of its route: the amount typed or selected goes through the handler, and
\* the minor units it stands for are posted to the route.
BoundInputs ==
    { <<"a">>, <<"-", "5">>, <<"0", ".", "0", "0", "4">>, <<"0", ".", "5">>,
      <<"0", ".", "9", "9">>, <<"1">>, <<"7", "5">>,
      <<"1", "0", "0", "0", "0">>,
      <<"1", "0", "0", "0", "0", ".", "0", "0", "4">>,
      <<"1", "0", "0", "0", "0", ".", "0", "1">>,
      <<"2", "0", "0", "0", "0">> }

EnterAmount(value, outcome) ==
    /\ flow = "bounds"
    /\ intentModal' = CustomInput(intentModal, value)
    /\ IF ParseFloat(value).nan
       THEN UNCHANGED <<api, created>>
       ELSE Respond(PaymentIntentAnswer(
                Num(ConvertToSubcurrency(ParseFloat(value))), outcome))
    /\ UNCHANGED <<flow, modal, form, page, stripe, requests, confirms, reqCount,
                   formCount, confirmCount, nav, escaped, pageVars>>

SelectPreset(amount, outcome) ==
    /\ flow = "bounds"
    /\ intentModal' = [intentModal EXCEPT !.selectedAmount = amount,
                                          !.customInput = EmptyStr,
                                          !.amountError = ""]
    /\ Respond(PaymentIntentAnswer(Num(ConvertToSubcurrency(amount)), outcome))
    /\ UNCHANGED <<flow, modal, form, page, stripe, requests, confirms, reqCount,
                   formCount, confirmCount, nav, escaped, pageVars>>

BoundsInit ==
    /\ flow = "bounds"
    /\ ClientInit
    /\ ServerInit
    /\ PagesInit

BoundsNext ==
    \/ \E value \in BoundInputs, outcome \in {"ok", "fail"} :
          EnterAmount(value, outcome)
    \/ \E amount \in PresetAmounts, outcome \in {"ok", "fail"} :
          SelectPreset(amount, outcome)

SpecBounds == BoundsInit /\ [][BoundsNext]_vars

\* the banner, the navbar and the payment-success page over several days
PagesSpecInit ==
    /\ flow = "pages"
    /\ ClientInit
    /\ ServerInit
    /\ PagesInit

PagesNext ==
    \/ Tick
    \/ PageLoad
    \/ NavbarRemount
    \/ \E isEnabled \in BOOLEAN : BannerDataLoaded(isEnabled)
    \/ HandleClose
    \/ \E paymentIntent \in PaymentIntents, redirectStatus \in RedirectStatuses :
          SuccessPageLoad(paymentIntent, redirectStatus)
    \/ SuccessTimerFires

SpecPages == PagesSpecInit /\ [][PagesNext]_vars

(***************************************************************************)
(* Properties.                                                             *)
(***************************************************************************)
\* the confirmation calls in flight that the mounted instance issued
OwnConfirms(id) == {c \in confirms : c.form = id}
\* the session-creation fetches in flight that the mounted CheckoutPage issued
OwnRequests(id) == {r \in requests : r.owner = id}

\* C1: once every session-creation response has been delivered, the token the
\* checkout holds is the one issued for the most recently committed amount;
\* a response to an abandoned or superseded request leaves no token behind.
C1_TokenOfLatestAmount ==
    requests = {} =>
      /\ flow = "session" =>
           \/ modal.clientSecret = NoToken
           \/ modal.clientSecret.amount = modal.selectedAmount
      /\ flow = "intent" =>
           \/ page.clientSecret = NoToken
           \/ page.clientSecret.amount =
                ConvertToSubcurrency(intentModal.selectedAmount)

\* C2: whenever the payment form is shown, and for every confirm call it
\* issues, the session token bound to the form was created for the amount
\* currently selected (the amount on the "Complete Donation ($X)" button).
C2_FormTokenForSelectedAmount ==
    (flow = "session" /\ form.id # 0 /\ form.checkout = "success") =>
      /\ modal.clientSecret.amount = modal.selectedAmount
      /\ form.bound.amount = modal.selectedAmount
      /\ \A c \in OwnConfirms(form.id) : c.token.amount = modal.selectedAmount

\* C3: no payment widget instance observes two different non-empty session
\* tokens during its lifetime: a token change replaces the instance.
C3_WidgetSeesOneToken ==
    flow = "session" => Cardinality(form.tokens \ {NoToken}) <= 1

\* C4: the payment form is presented only in formReady, submitting or
\* submitError: never while a session-creation request is in flight and
\* never while the latest session creation has failed.
C4_FormOnlyWhenSessionReady ==
    (flow = "session" /\ form.id # 0) =>
      /\ ~modal.loading
      /\ requests = {}
      /\ modal.error \notin {BackendMessage, SomethingWrong}

\* C5: after a session-creation request has failed, the checkout shows a
\* non-empty message and renders no payment widget, also when an earlier
\* request had succeeded.
C5_FailedSessionShowsErrorOnly ==
    /\ (flow = "session" /\ ~modal.loading
          /\ modal.error \in {BackendMessage, SomethingWrong})
         => form.id = 0
    /\ (flow = "intent" /\ page.id # 0 /\ OwnRequests(page.id) = {}
          /\ page.clientSecret = NoToken)
         => page.errorMessage # ""

\* C6: a modal that is open with no amount committed since it was opened is
\* idle and carries nothing of a previous attempt: no loading flag, no
\* session token, no session error, no mounted form with donor input.
C6_ReopenStartsIdle ==
    (flow = "session" /\ modal.open /\ modal.selectedAmount = Null) =>
      /\ ~modal.loading
      /\ modal.clientSecret = NoToken
      /\ modal.error \in {"", EnterAtLeast}
      /\ form = NoForm

\* C7: while the modal is closed, the resolution of a request that was in
\* flight when it closed changes no state variable of the checkout.
C7_ClosedModalIgnoresResolutions ==
    [][(flow = "session" /\ ~modal.open /\ ~modal'.open) => modal' = modal]_vars

\* C8: at most one confirmation call is in flight for a checkout form; while
\* the form is submitting no second confirm call is started.
C8_OneConfirmPerForm ==
    \A c1, c2 \in confirms : c1.form = c2.form => c1 = c2

\* a retried submit: the second confirm call of the only form instance ever
\* mounted is in flight
C8_Witness ==
    /\ flow = "session" /\ formCount = 1 /\ form.submitting
    /\ \E c \in confirms : c.form = form.id /\ c.id = 2

\* C9: a submit of CheckoutForm with an email that is empty or has no "@"
\* issues no confirmation call, leaves submitting false and shows
\* "Please enter a valid email address".
C9_InvalidEmailNeverConfirms ==
    [][(CheckoutFormHandleSubmit
          /\ (form.email = EmptyStr \/ ~Includes(form.email, "@")))
        => /\ confirms' = confirms
           /\ confirmCount' = confirmCount
           /\ ~form'.submitting
           /\ form'.error = "Please enter a valid email address"]_vars

\* a form that rejected an "@"-less, non-empty email
C9_Witness ==
    /\ flow = "session" /\ form.id # 0
    /\ form.email = <<"a", "b">>
    /\ form.error = InvalidEmail /\ ~form.submitting
    /\ confirmCount = 0

\* C10: every failure of a network-facing operation ends in sessionError or
\* submitError: no exception escapes a handler, and a loading or submitting
\* flag is set only while its request is still in flight.
C10_FailuresAreConverted ==
    /\ ~escaped
    /\ nav = OnSite =>
         /\ modal.loading => requests # {}
         /\ form.submitting => OwnConfirms(form.id) # {}
         /\ page.loading => OwnConfirms(page.id) # {}

C12_SuccessNavigatesWithSession ==
    [][/\ \A c \in confirms :
            (CheckoutFormConfirmSettled(c, "success") /\ c.form = form.id)
              => /\ nav'.page = "donation-success"
                 /\ nav'.session = c.token /\ c.token # NoToken
                 /\ form'.submitting /\ form'.error = ""
                 /\ confirmCount' = confirmCount
       /\ nav.page = "donation-success" => UNCHANGED vars]_vars

\* the first preset, its session created, the form mounted, a well-formed
\* email submitted once and confirmed
C12_Witness ==
    /\ flow = "session" /\ nav.page = "donation-success"
    /\ nav.session = [id |-> 1, amount |-> 2500]
    /\ modal.selectedAmount = 2500 /\ reqCount = 1
    /\ form.submitting /\ form.email = <<"a", "@", "b">>
    /\ confirmCount = 1

\* C13: the result of a confirmation call issued for a session that has
\* since been superseded by a newer one never sets the error message or the
\* submitting flag of the form now showing the newer session.
C13_StaleConfirmDiscarded ==
    [][\A c \in confirms :
         (/\ flow = "session"
          /\ c \notin confirms'
          /\ form.id # 0
          /\ modal.clientSecret # NoToken
          /\ c.token # modal.clientSecret)
           => /\ form'.error = form.error
              /\ form'.submitting = form.submitting]_vars

\* C14: committing a free-form input S whose parseFloat is NaN, below 1.00
\* or above 10000.00 leaves the committed amount unchanged, shows a
\* validation error and creates no session; any other S commits
\* round(parseFloat(S) * 100) minor units.
C14_CustomAmountValidated ==
    [][/\ HandleCustomAmount =>
            LET v == ParseFloat(modal.amount)
            IN  IF v.nan \/ LessThan(v, 1) \/ GreaterThan(v, 10000)
                THEN /\ modal'.selectedAmount = modal.selectedAmount
                     /\ modal'.error # ""
                     /\ requests' = requests
                ELSE modal'.selectedAmount = RoundTimes100(v)
       /\ \A value \in IntentInputs :
            HandleCustomInput(value) =>
              LET v == ParseFloat(value)
              IN  IF v.nan \/ LessThan(v, 1) \/ GreaterThan(v, 10000)
                  THEN /\ intentModal'.selectedAmount = intentModal.selectedAmount
                       /\ intentModal'.amountError # ""
                       /\ requests' = requests
                  ELSE ConvertToSubcurrency(intentModal'.selectedAmount)
                         = RoundTimes100(v)]_vars

\* C15: the committed amount, and the amount of every session-creation
\* request, is an integer number of minor units within [100, 1000000].
C15_AmountsWithinBounds ==
    /\ flow = "session" =>
         /\ modal.selectedAmount # Null =>
              (modal.selectedAmount >= 100 /\ modal.selectedAmount <= 1000000)
         /\ \A r \in requests : r.amount >= 100 /\ r.amount <= 1000000
    /\ flow = "intent" =>
         /\ ConvertToSubcurrency(intentModal.selectedAmount) >= 100
         /\ ConvertToSubcurrency(intentModal.selectedAmount) <= 1000000
         /\ \A r \in requests : r.amount >= 100 /\ r.amount <= 1000000

\* C16: selecting a preset P, from whatever state, sets the committed amount
\* to P, empties the free-form input field and clears any validation error.
C16_PresetSetsAmountAndClears ==
    [][/\ \A cents \in Presets :
            HandlePresetAmount(cents) =>
              /\ modal'.selectedAmount = cents
              /\ modal'.amount = EmptyStr
              /\ modal'.error = ""
       /\ \A amount \in PresetAmounts :
            HandlePresetClick(amount) =>
              /\ intentModal'.selectedAmount = amount
              /\ intentModal'.customInput = EmptyStr
              /\ intentModal'.amountError = ""]_vars

\* $25 selected after the custom amount "75" had been typed and committed:
\* the session for $75 is still held, the input field is empty again
C16_Witness ==
    /\ flow = "session" /\ modal.open
    /\ modal.clientSecret = [id |-> 1, amount |-> 7500]
    /\ modal.selectedAmount = 2500
    /\ modal.amount = EmptyStr /\ modal.error = ""
    /\ modal.loading

\* C17: selecting the preset that equals the committed amount is a no-op: no
\* session-creation request is issued, the token and the checkout state stay
\* as they are.
C17_ReselectIsNoOp ==
    [][/\ \A cents \in Presets :
            (HandlePresetAmount(cents) /\ modal.selectedAmount = cents)
              => /\ requests' = requests /\ reqCount' = reqCount
                 /\ modal' = modal /\ form' = form
       /\ \A amount \in PresetAmounts :
            (HandlePresetClick(amount) /\ intentModal.selectedAmount = amount
               /\ page.id # 0)
              => /\ requests' = requests /\ reqCount' = reqCount
                 /\ page' = page]_vars

C19_InvalidAmountRejected ==
    (/\ api.route \in {"create-payment-intent", "create-checkout-session"}
     /\ \/ api.body.type \in {"undefined", "string"}
        \/ (api.body.type = "number" /\ api.body.n <= 0))
      => /\ api.status >= 400 /\ api.status <= 499
         /\ api.error # ""
         /\ ~api.issued

\* C20: the verification route answers 400 with an error body, without an
\* upstream lookup, when session_id is absent or empty; 500 with an error
\* message when the lookup fails; and otherwise the status, amount_total
\* and currency of the session it retrieved.
C20_VerifySessionResponses ==
    api.route = "verify-session" =>
      IF ~api.sessionId.present \/ api.sessionId.value = ""
      THEN /\ api.status = 400 /\ api.error # ""
           /\ api.upstream = "none"
      ELSE IF api.upstream = "failed"
      THEN api.status = 500 /\ api.error # ""
      ELSE /\ api.upstream = "retrieved" /\ api.status = 200
           /\ api.error = ""
           /\ api.session.status = api.retrieved.status
           /\ api.session.amount_total = api.retrieved.amount_total
           /\ api.session.currency = api.retrieved.currency

\* a request with an empty session_id parameter was answered
C20_Witness ==
    /\ api.route = "verify-session"
    /\ api.sessionId = Param("")
    /\ api.status = 400

\* C21: the indicators of the open session-flow modal show one state at a
\* time: the loading indicator, the session-error message and the payment
\* form are never shown together.
C21_IndicatorsExclusive ==
    (flow = "session" /\ modal.open) =>
      /\ ~(modal.loading /\ form.id # 0)
      /\ ~(modal.loading /\ modal.error \in {BackendMessage, SomethingWrong})
      /\ ~(modal.error \in {BackendMessage, SomethingWrong} /\ form.id # 0)

\* C23: in the open payment-intent modal, Elements with CheckoutPage is
\* mounted exactly when selectedAmount >= 1, amountError is empty and the
\* custom input is empty or parses as a number; while a validation error is
\* displayed the form is not mounted and no payment intent is being created.
C23_FormExactlyWhenCanProceed ==
    (flow = "intent" /\ intentModal.open) =>
      /\ (page.id # 0) <=>
           (/\ intentModal.selectedAmount.num >= intentModal.selectedAmount.den
            /\ intentModal.amountError = ""
            /\ \/ intentModal.customInput = EmptyStr
               \/ ~ParseFloat(intentModal.customInput).nan)
      /\ intentModal.amountError # "" => (page.id = 0 /\ requests = {})

\* C23, amended: as above, but "no payment intent is being created" says
\* that no request is issued while a validation error is displayed; a
\* request issued before the error appeared may still be in flight, with no
\* mounted form to receive its response.
C23_FormExactlyWhenCanProceedAmended ==
    [][(flow = "intent" /\ intentModal'.open) =>
         /\ (page'.id # 0) <=>
              (/\ intentModal'.selectedAmount.num
                     >= intentModal'.selectedAmount.den
               /\ intentModal'.amountError = ""
               /\ \/ intentModal'.customInput = EmptyStr
                  \/ ~ParseFloat(intentModal'.customInput).nan)
         /\ intentModal'.amountError # "" =>
              /\ page'.id = 0
              /\ requests' \subseteq requests
              /\ \A r \in requests' : r.owner # page'.id]_vars

\* a validation error is displayed while the request of the form that was
\* mounted before it is still in flight
C23_Witness ==
    /\ flow = "intent" /\ intentModal.open
    /\ intentModal.amountError = "Maximum donation is $10,000"
    /\ page.id = 0 /\ requests # {}

\* C24: every confirmation call of CheckoutPage carries a non-empty
\* clientSecret, and while the instance that issued it is mounted that
\* clientSecret was returned for the instance's current amount: submit is
\* impossible before Stripe has loaded, before a session exists or while
\* loading.
C24_ConfirmCarriesClientSecret ==
    flow = "intent" =>
      /\ \A c \in confirms :
           /\ c.token # NoToken
           /\ c.form = page.id =>
                c.token.amount =
                  (200 * page.amount.num + page.amount.den)
                    \div (2 * page.amount.den)
      /\ page.loading => stripe

\* confirmPayment has been called by the mounted CheckoutPage
C24_Witness ==
    /\ flow = "intent" /\ page.id # 0 /\ page.loading
    /\ \E c \in confirms :
         c.form = page.id /\ c.step = "confirm" /\ c.token = page.clientSecret

\* C25: when the network call of createSession resolves or rejects, loading
\* is false again on the success path, the backend-error path and the
\* exception path, and the amount controls of the open modal are enabled.
C25_CreateSessionLeavesLoading ==
    [][\A r \in requests : \A outcome \in {"ok", "error", "throw"} :
         CreateSessionSettled(r, outcome) =>
           /\ ~modal'.loading
           /\ modal.open => (modal'.open /\ ~modal'.loading)]_vars

\* a request that ended in the catch block, with the modal open
C25_Witness ==
    /\ flow = "session" /\ modal.open
    /\ modal.error = SomethingWrong /\ ~modal.loading
    /\ requests = {} /\ reqCount = 1

\* C27: in the session flow at most one session-creation request is in
\* flight, whatever the sequence of preset clicks, custom-amount commits,
\* closes and reopens.
C27_OneRequestInFlight ==
    flow = "session" => Cardinality(requests) <= 1

\* the modal was closed and reopened while its request is in flight: the
\* controls are still disabled
C27_Witness ==
    /\ flow = "session" /\ modal.open /\ modal.selectedAmount = Null
    /\ modal.loading /\ Cardinality(requests) = 1

\* C29: while a confirmation is in flight no error message of an earlier
\* attempt is displayed, in CheckoutForm and in CheckoutPage.
C29_SubmitClearsError ==
    /\ (flow = "session" /\ form.submitting) => form.error = ""
    /\ (flow = "intent" /\ page.loading) => page.errorMessage = ""

\* C22: a mount of TopBanner less than 5 days after the banner was closed
\* keeps the banner hidden and keeps the stored timestamp; a mount at 5 days
\* or more removes the timestamp and leaves the banner eligible to show.
\* The expiry is evaluated at the mount that reads the stored value, not
\* when time passes.
C22_BannerExpiry ==
    [][/\ (/\ \/ PageLoad
               \/ \E paymentIntent \in PaymentIntents,
                     redirectStatus \in RedirectStatuses :
                     SuccessPageLoad(paymentIntent, redirectStatus)
            /\ banner.closedTime # Null) =>
            IF banner.now - banner.closedTime < 5
            THEN /\ ~banner'.top.isVisible
                 /\ banner'.closedTime = banner.closedTime
            ELSE /\ banner'.top.isVisible
                 /\ banner'.closedTime = Null
       /\ Tick => /\ banner'.closedTime = banner.closedTime
                  /\ banner'.top = banner.top]_vars

\* the banner was closed on day 1 and the page was loaded again on day 5,
\* the last day of the window: a fresh TopBanner (its banner data not yet
\* fetched) hides itself and the timestamp is kept
C22_Witness ==
    /\ flow = "pages" /\ banner.now = 5
    /\ banner.closedTime = 1
    /\ banner.top.isMounted /\ ~banner.top.isVisible
    /\ banner.top.data = "none"

\* C28: whenever TopBanner hides itself because of a dismissal less than 5
\* days old, the mounted Navbar has isBannerVisible false as well.
C28_NavbarAgreesWithBanner ==
    (/\ flow = "pages"
     /\ banner.top.isMounted /\ banner.navbar.mounted
     /\ banner.closedTime # Null
     /\ banner.now - banner.closedTime < 5
     /\ ~banner.top.isVisible)
      => ~banner.navbar.isBannerVisible

\* C26: after the loading phase the payment-success page shows "Payment
\* Successful" only with a payment_intent and redirect_status "succeeded";
\* without a payment_intent it shows "Invalid Payment" whatever the
\* status, and with one and any other status it shows "Payment Failed".
C26_SuccessPageBranches ==
    (flow = "pages" /\ success.mounted /\ ~success.isLoading) =>
      LET hasIntent == success.paymentIntent.present
                         /\ success.paymentIntent.value # ""
          succeeded == success.redirectStatus.present
                         /\ success.redirectStatus.value = "succeeded"
      IN  /\ Shown(success) = "Payment Successful"
                => (hasIntent /\ succeeded)
          /\ ~hasIntent => Shown(success) = "Invalid Payment"
          /\ (hasIntent /\ ~succeeded) => Shown(success) = "Payment Failed"
          /\ (hasIntent /\ succeeded) => Shown(success) = "Payment Successful"

\* the page was loaded without payment_intent but with redirect_status
\* "succeeded", and its timer has fired
C26_Witness ==
    /\ flow = "pages" /\ success.mounted /\ ~success.isLoading
    /\ success.paymentIntent = NoParam
    /\ success.redirectStatus = Param("succeeded")

\* C30: every amount that handleCustomInput accepts, sent as
\* round(amount * 100) minor units, and every preset passes the validation
\* of the create-payment-intent route (a positive number not above
\* 1000000); every custom amount the route rejects has already been
\* rejected by the client.
C30_ClientServerBoundsAgree ==
    [][/\ \A value \in BoundInputs : \A outcome \in {"ok", "fail"} :
            (EnterAmount(value, outcome) /\ ~ParseFloat(value).nan) =>
              /\ intentModal'.amountError = "" =>
                   /\ api'.status # 400
                   /\ api'.body.n >= 1 /\ api'.body.n <= 1000000
                   /\ intentModal'.selectedAmount = ParseFloat(value)
              /\ api'.status = 400 => intentModal'.amountError # ""
       /\ \A amount \in PresetAmounts : \A outcome \in {"ok", "fail"} :
            SelectPreset(amount, outcome) =>
              /\ api'.status # 400
              /\ api'.body.n >= 1 /\ api'.body.n <= 1000000]_vars

\* the largest amount the client accepts, accepted by the route as well
C30_Witness ==
    /\ flow = "bounds"
    /\ intentModal.customInput = <<"1", "0", "0", "0", "0">>
    /\ intentModal.amountError = ""
    /\ api.body = Num(1000000) /\ api.status = 200
====
